---------------------------- MODULE Spec2Model ----------------------------
(***************************************************************************)
(* A model of gomill's SGF reader (src/gomill/sgf_reader.py).              *)
(*                                                                         *)
(* A Python string is a sequence of one-character strings.  The reader is  *)
(* a set of pure functions, so the module holds several specifications,    *)
(* one per group of functions, over one set of variables:                  *)
(*   SpecText   value_as_text                                              *)
(*   SpecPoint  interpret_point                                            *)
(*   SpecList   interpret_compressed_point_list                            *)
(*   SpecRead   _tokenise and read_sgf, from a string of characters        *)
(*   SpecTree   read_sgf from a token list, then the Sgf_game_tree getters *)
(* A specification leaves the variables of the others at their idle value. *)
(***************************************************************************)
EXTENDS Integers, Sequences, FiniteSets, TLC

VARIABLES
    \* value_as_text
    vt_pc, vt_in, vt_s, vt_chunks, vt_i, is_escaped, vt_result, vt_out,
    \* interpret_point
    ip_pc, ip_s, ip_size, ip_out,
    \* interpret_compressed_point_list
    pl_pc, pl_values, pl_size, pl_i, pl_result, pl_out,
    \* _tokenise
    tk_pc, s, i, tokens, tok_start, tok_end,
    \* read_sgf
    rd_pc, index, nodes, node, closed, rd_out,
    \* Sgf_game_tree
    size, ga_call, ga_ret

textVars  == <<vt_pc, vt_in, vt_s, vt_chunks, vt_i, is_escaped, vt_result, vt_out>>
pointVars == <<ip_pc, ip_s, ip_size, ip_out>>
listVars  == <<pl_pc, pl_values, pl_size, pl_i, pl_result, pl_out>>
tokVars   == <<tk_pc, s, i, tokens, tok_start, tok_end>>
readVars  == <<rd_pc, index, nodes, node, closed, rd_out>>
treeVars  == <<size, ga_call, ga_ret>>
vars == <<textVars, pointVars, listVars, tokVars, readVars, treeVars>>

\* the variables a specification leaves alone
notText  == <<pointVars, listVars, tokVars, readVars, treeVars>>
notPoint == <<textVars, listVars, tokVars, readVars, treeVars>>
notList  == <<textVars, pointVars, tokVars, readVars, treeVars>>
notSgf   == <<textVars, pointVars, listVars>>

-----------------------------------------------------------------------------
(* Bounds of the model.                                                    *)

\* longest raw Text value given to value_as_text
MaxTextLen == 4
\* largest board size given to interpret_point
MaxSize == 20
\* longest value list given to interpret_compressed_point_list
MaxValues == 2
\* longest string of characters that follows the lead of an input of read_sgf
MaxLen == 4
\* most items (a property, a delimiter, a stray token) after "(;" in a token list
MaxItems == 3

-----------------------------------------------------------------------------
(* Characters.                                                             *)

\* The printable ASCII characters in code order, from code 32 (the backquote,
\* which a TLA+ string cannot hold, by its name).
Ascii ==
    <<" ", "!", "\"", "#", "$", "%", "&", "'", "(", ")", "*", "+", ",", "-", ".", "/",
      "0", "1", "2", "3", "4", "5", "6", "7", "8", "9", ":", ";", "<", "=", ">", "?",
      "@", "A", "B", "C", "D", "E", "F", "G", "H", "I", "J", "K", "L", "M", "N", "O",
      "P", "Q", "R", "S", "T", "U", "V", "W", "X", "Y", "Z", "[", "\\", "]", "^", "_",
      "backquote", "a", "b", "c", "d", "e", "f", "g", "h", "i", "j", "k", "l", "m", "n", "o",
      "p", "q", "r", "s", "t", "u", "v", "w", "x", "y", "z", "{", "|", "}", "~">>

\* the code of each character: of the printable ones from their place in
\* Ascii, of the whitespace characters as listed
Code ==
    [c \in {Ascii[n] : n \in 1..Len(Ascii)} |->
        31 + (CHOOSE n \in 1..Len(Ascii) : Ascii[n] = c)]
    @@ ("\t" :> 9) @@ ("\n" :> 10) @@ ("\f" :> 12) @@ ("\r" :> 13)

ord(c) == Code[c]

chr(n) == Ascii[n - 31]

UpperCase == {Ascii[n] : n \in 34..59}

IsUpper(c) == c \in UpperCase

IsSpace(c) == c \in {" ", "\t", "\n", "\r", "\f"}

\* str.lower(), character by character
lower(str) ==
    [n \in 1..Len(str) |->
        IF IsUpper(str[n]) THEN chr(ord(str[n]) + (ord("a") - ord("A"))) ELSE str[n]]

\* every sequence over alphabet of length 0..n
SeqsUpTo(alphabet, n) == UNION {[1..k -> alphabet] : k \in 0..n}

RECURSIVE Join(_)
Join(strs) == IF strs = <<>> THEN <<>> ELSE Head(strs) \o Join(Tail(strs))

-----------------------------------------------------------------------------
(* The results of a call (a value, or the exception it raises), and the    *)
(* values of the variables of a function that is not running.              *)

None == [kind |-> "None"]
ValueError == [kind |-> "ValueError"]
Pt(row, col) == [kind |-> "point", pt |-> <<row, col>>]
IndexError == [kind |-> "IndexError"]
UnboundLocalError == [kind |-> "UnboundLocalError"]
IntVal(n) == [kind |-> "int", val |-> n]
Tree(nds, sz) == [kind |-> "tree", nodes |-> nds, size |-> sz]

IdleText ==
    /\ vt_pc = "idle"
    /\ vt_in = <<>>
    /\ vt_s = <<>>
    /\ vt_chunks = <<>>
    /\ vt_i = 1
    /\ is_escaped = FALSE
    /\ vt_result = <<>>
    /\ vt_out = <<>>

IdlePoint ==
    /\ ip_pc = "idle"
    /\ ip_s = <<>>
    /\ ip_size = 19
    /\ ip_out = None

IdleList ==
    /\ pl_pc = "idle"
    /\ pl_values = <<>>
    /\ pl_size = 19
    /\ pl_i = 1
    /\ pl_result = {}
    /\ pl_out = None

IdleTok ==
    /\ tk_pc = "idle"
    /\ s = <<>>
    /\ i = 1
    /\ tokens = <<>>
    /\ tok_start = <<>>
    /\ tok_end = <<>>

\* the state of read_sgf at its first statement: tree = Sgf_game_tree()
ReadEntry ==
    /\ index = 1
    /\ nodes = <<>>
    /\ node = 0
    /\ closed = FALSE
    /\ rd_out = None
    /\ size = None
    /\ ga_call = "none"
    /\ ga_ret = None

IdleRead ==
    /\ rd_pc = "idle"
    /\ ReadEntry

-----------------------------------------------------------------------------
(* value_as_text                                                           *)

\* _newline_re.sub("\n", s): the alternatives are tried in the order written
RECURSIVE NewlineSub(_)
NewlineSub(str) ==
    IF str = <<>> THEN <<>>
    ELSE IF Len(str) >= 2 /\ <<str[1], str[2]>> \in {<<"\n", "\r">>, <<"\r", "\n">>}
         THEN <<"\n">> \o NewlineSub(SubSeq(str, 3, Len(str)))
    ELSE IF str[1] \in {"\n", "\r"}
         THEN <<"\n">> \o NewlineSub(Tail(str))
    ELSE <<str[1]>> \o NewlineSub(Tail(str))

\* s.translate(_whitespace_table); the table also maps the vertical tab, which
\* a TLA+ string cannot hold
Translate(str) ==
    [n \in 1..Len(str) |-> IF str[n] \in {"\t", "\f"} THEN " " ELSE str[n]]

\* length of the longest prefix of str with no newline and no backslash
RECURSIVE PlainRun(_)
PlainRun(str) ==
    IF str = <<>> \/ str[1] \in {"\n", "\\"} THEN 0 ELSE 1 + PlainRun(Tail(str))

\* _chunk_re.findall(s): a maximal run of plain characters, or one newline, or
\* one backslash
RECURSIVE ChunkFindall(_)
ChunkFindall(str) ==
    IF str = <<>> THEN <<>>
    ELSE LET n == IF PlainRun(str) > 0 THEN PlainRun(str) ELSE 1
         IN <<SubSeq(str, 1, n)>> \o ChunkFindall(SubSeq(str, n + 1, Len(str)))

\* what the loop appends for a chunk met while is_escaped
EscapedChunkNoContinuation(chunk) == <<chunk>>

EscapedChunk(chunk) == IF chunk # <<"\n">> THEN <<chunk>> ELSE <<>>

InitText ==
    /\ IdlePoint /\ IdleList /\ IdleTok /\ IdleRead
    /\ vt_pc = "entry"
    /\ vt_in \in SeqsUpTo({"a", "\\", "\n", "\r", "\t"}, MaxTextLen)
    /\ vt_s = <<>>
    /\ vt_chunks = <<>>
    /\ vt_i = 1
    /\ is_escaped = FALSE
    /\ vt_result = <<>>
    /\ vt_out = <<>>

\* lines 29-33: normalise the whitespace, split into chunks
TextNormalise ==
    /\ vt_pc = "entry"
    /\ vt_s' = Translate(NewlineSub(vt_in))
    /\ vt_chunks' = ChunkFindall(vt_s')
    /\ vt_i' = 1
    /\ is_escaped' = FALSE
    /\ vt_result' = <<>>
    /\ vt_pc' = "loop"
    /\ UNCHANGED <<vt_in, vt_out>>
    /\ UNCHANGED notText

\* lines 34-37
TextChunkEscaped ==
    /\ vt_pc = "loop"
    /\ vt_i <= Len(vt_chunks)
    /\ is_escaped
    /\ vt_result' = vt_result \o EscapedChunk(vt_chunks[vt_i])
    /\ is_escaped' = FALSE
    /\ vt_i' = vt_i + 1
    /\ UNCHANGED <<vt_pc, vt_in, vt_s, vt_chunks, vt_out>>
    /\ UNCHANGED notText

\* lines 38-39
TextChunkBackslash ==
    /\ vt_pc = "loop"
    /\ vt_i <= Len(vt_chunks)
    /\ ~is_escaped
    /\ vt_chunks[vt_i] = <<"\\">>
    /\ is_escaped' = TRUE
    /\ vt_i' = vt_i + 1
    /\ UNCHANGED <<vt_pc, vt_in, vt_s, vt_chunks, vt_result, vt_out>>
    /\ UNCHANGED notText

\* lines 40-41
TextChunkPlain ==
    /\ vt_pc = "loop"
    /\ vt_i <= Len(vt_chunks)
    /\ ~is_escaped
    /\ vt_chunks[vt_i] # <<"\\">>
    /\ vt_result' = Append(vt_result, vt_chunks[vt_i])
    /\ vt_i' = vt_i + 1
    /\ UNCHANGED <<vt_pc, vt_in, vt_s, vt_chunks, is_escaped, vt_out>>
    /\ UNCHANGED notText

\* line 42
TextReturn ==
    /\ vt_pc = "loop"
    /\ vt_i > Len(vt_chunks)
    /\ vt_out' = Join(vt_result)
    /\ vt_pc' = "done"
    /\ UNCHANGED <<vt_in, vt_s, vt_chunks, vt_i, is_escaped, vt_result>>
    /\ UNCHANGED notText

NextText ==
    \/ TextNormalise
    \/ TextChunkEscaped
    \/ TextChunkBackslash
    \/ TextChunkPlain
    \/ TextReturn

-----------------------------------------------------------------------------
(* interpret_point                                                         *)

\* interpret_point with the legacy pass "tt" read as a pass on every board
interpret_point_pass_any_size(str, sz) ==
    LET ls == lower(str)
    IN IF ls = <<>> \/ ls = <<"t", "t">> THEN None
       ELSE IF Len(ls) # 2 THEN ValueError
       ELSE LET col == ord(ls[1]) - ord("a")
                row == sz - (ord(ls[2]) - ord("a")) - 1
            IN IF ~(0 <= col /\ col < sz) THEN ValueError
               ELSE IF ~(0 <= row /\ row < sz) THEN ValueError
               ELSE Pt(row, col)

\* unpacking a string of any length but 2 into col_s, row_s raises ValueError
interpret_point(str, sz) ==
    LET ls == lower(str)
    IN IF ls = <<>> \/ (ls = <<"t", "t">> /\ sz <= 19) THEN None
       ELSE IF Len(ls) # 2 THEN ValueError
       ELSE LET col == ord(ls[1]) - ord("a")
                row == sz - (ord(ls[2]) - ord("a")) - 1
            IN IF ~(0 <= col /\ col < sz) THEN ValueError
               ELSE IF ~(0 <= row /\ row < sz) THEN ValueError
               ELSE Pt(row, col)

\* the letter of index n, from "a"
Letter(n) == chr(ord("a") + n)

\* the characters of the strings given to interpret_point: the letters of the
\* board and one beyond it, in both cases
PointChars ==
    {Letter(n) : n \in 0..MaxSize} \cup {chr(ord("A") + n) : n \in 0..MaxSize}

InitPoint ==
    /\ IdleText /\ IdleList /\ IdleTok /\ IdleRead
    /\ ip_pc = "entry"
    /\ ip_size \in 1..MaxSize
    /\ ip_s \in SeqsUpTo(PointChars, 2) \cup {<<"a", "a", "a">>}
    /\ ip_out = None

InterpretPoint ==
    /\ ip_pc = "entry"
    /\ ip_out' = interpret_point(ip_s, ip_size)
    /\ ip_pc' = "done"
    /\ UNCHANGED <<ip_s, ip_size>>
    /\ UNCHANGED notPoint

-----------------------------------------------------------------------------
(* interpret_compressed_point_list                                         *)

\* the position of the first ":" of str, 0 when it has none
RECURSIVE Find(_, _, _)
Find(str, c, from) ==
    IF from > Len(str) THEN 0
    ELSE IF str[from] = c THEN from
    ELSE Find(str, c, from + 1)

\* s.partition(":")
partition(str) ==
    LET k == Find(str, ":", 1)
    IN IF k = 0
       THEN [p1 |-> str, is_rectangle |-> FALSE, p2 |-> <<>>]
       ELSE [p1 |-> SubSeq(str, 1, k - 1), is_rectangle |-> TRUE,
             p2 |-> SubSeq(str, k + 1, Len(str))]

\* the two loops over xrange(bottom, top) and xrange(left, right+1): the top
\* row is left out
RectPointsNoTopRow(top, left, bottom, right) ==
    UNION {{<<row, col>> : col \in left..right} : row \in bottom..(top - 1)}

\* the two loops over xrange(bottom, top+1) and xrange(left, right+1)
RectPoints(top, left, bottom, right) ==
    UNION {{<<row, col>> : col \in left..right} : row \in bottom..top}

\* what one pass of the loop body does with the value v: the points it adds,
\* or ValueError
ListItem(v, sz) ==
    LET part == partition(v)
        c1 == interpret_point(part.p1, sz)
        c2 == interpret_point(part.p2, sz)
    IN IF part.is_rectangle
       THEN IF c1 = ValueError \/ c2 = ValueError THEN ValueError
            \* unpacking None raises TypeError, caught and raised as ValueError
            ELSE IF c1 = None \/ c2 = None THEN ValueError
            ELSE LET top == c1.pt[1]
                     left == c1.pt[2]
                     bottom == c2.pt[1]
                     right == c2.pt[2]
                 IN IF ~(bottom <= top /\ left <= right) THEN ValueError
                    ELSE [kind |-> "points",
                          points |-> RectPoints(top, left, bottom, right)]
       ELSE IF c1 = ValueError THEN ValueError
            ELSE IF c1 = None THEN ValueError
            ELSE [kind |-> "points", points |-> {c1.pt}]

ListLetters == {"a", "t"}
ListSizes == {1, 2, 19, 20}
PointStrs == SeqsUpTo(ListLetters, 2) \ [1..1 -> ListLetters]
ListValues == PointStrs \cup {p1 \o <<":">> \o p2 : p1 \in PointStrs, p2 \in PointStrs}

InitList ==
    /\ IdleText /\ IdlePoint /\ IdleTok /\ IdleRead
    /\ pl_pc = "loop"
    /\ pl_size \in ListSizes
    /\ pl_values \in SeqsUpTo(ListValues, MaxValues)
    /\ pl_i = 1
    /\ pl_result = {}
    /\ pl_out = None

\* lines 86-96
ListRectangle ==
    /\ pl_pc = "loop"
    /\ pl_i <= Len(pl_values)
    /\ partition(pl_values[pl_i]).is_rectangle
    /\ ListItem(pl_values[pl_i], pl_size) # ValueError
    /\ pl_result' = pl_result \cup ListItem(pl_values[pl_i], pl_size).points
    /\ pl_i' = pl_i + 1
    /\ UNCHANGED <<pl_pc, pl_values, pl_size, pl_out>>
    /\ UNCHANGED notList

\* lines 87-93
ListRectangleError ==
    /\ pl_pc = "loop"
    /\ pl_i <= Len(pl_values)
    /\ partition(pl_values[pl_i]).is_rectangle
    /\ ListItem(pl_values[pl_i], pl_size) = ValueError
    /\ pl_out' = ValueError
    /\ pl_pc' = "done"
    /\ UNCHANGED <<pl_values, pl_size, pl_i, pl_result>>
    /\ UNCHANGED notList

\* lines 98-101
ListPoint ==
    /\ pl_pc = "loop"
    /\ pl_i <= Len(pl_values)
    /\ ~partition(pl_values[pl_i]).is_rectangle
    /\ ListItem(pl_values[pl_i], pl_size) # ValueError
    /\ pl_result' = pl_result \cup ListItem(pl_values[pl_i], pl_size).points
    /\ pl_i' = pl_i + 1
    /\ UNCHANGED <<pl_pc, pl_values, pl_size, pl_out>>
    /\ UNCHANGED notList

\* lines 98-100
ListPointError ==
    /\ pl_pc = "loop"
    /\ pl_i <= Len(pl_values)
    /\ ~partition(pl_values[pl_i]).is_rectangle
    /\ ListItem(pl_values[pl_i], pl_size) = ValueError
    /\ pl_out' = ValueError
    /\ pl_pc' = "done"
    /\ UNCHANGED <<pl_values, pl_size, pl_i, pl_result>>
    /\ UNCHANGED notList

\* line 102
ListReturn ==
    /\ pl_pc = "loop"
    /\ pl_i > Len(pl_values)
    /\ pl_out' = [kind |-> "points", points |-> pl_result]
    /\ pl_pc' = "done"
    /\ UNCHANGED <<pl_values, pl_size, pl_i, pl_result>>
    /\ UNCHANGED notList

NextList ==
    \/ ListRectangle
    \/ ListRectangleError
    \/ ListPoint
    \/ ListPointError
    \/ ListReturn

-----------------------------------------------------------------------------
(* _tokenise                                                               *)

\* A position of a string is counted from 1: the variable i holds the code's
\* i plus one, and 0 stands for "no match".

Min(S) == CHOOSE x \in S : \A y \in S : x <= y
Max(S) == CHOOSE x \in S : \A y \in S : x >= y

\* the first position at or after from that holds no whitespace (\s*)
RECURSIVE SkipSpace(_, _)
SkipSpace(str, from) ==
    IF from <= Len(str) /\ IsSpace(str[from]) THEN SkipSpace(str, from + 1) ELSE from

\* a start pattern that asks for the "(" alone
StartsAtParen(str, p) == str[p] = "("

\* whether _find_start_re, \(\s*; , matches at position p
StartsAt(str, p) ==
    /\ str[p] = "("
    /\ SkipSpace(str, p + 1) <= Len(str)
    /\ str[SkipSpace(str, p + 1)] = ";"

\* _find_start_re.search(s): the start of the leftmost match, 0 for no match
find_start(str) ==
    LET starts == {p \in 1..Len(str) : StartsAt(str, p)}
    IN IF starts = {} THEN 0 ELSE Min(starts)

\* the number of consecutive backslashes from position from on
RECURSIVE BackslashRun(_, _)
BackslashRun(str, from) ==
    IF from <= Len(str) /\ str[from] = "\\" THEN 1 + BackslashRun(str, from + 1) ELSE 0

\* the number of consecutive upper-case letters from position from on
RECURSIVE UpperRun(_, _)
UpperRun(str, from) ==
    IF from <= Len(str) /\ IsUpper(str[from]) THEN 1 + UpperRun(str, from + 1) ELSE 0

\* the value pattern without its lookbehind: .*? (?:\\\\)* \]
ValueCloseNoLookbehind(str, p, k) ==
    LET j == p + 1 + k
        ms == {m \in 0..(BackslashRun(str, j) \div 2) :
                  j + 2 * m <= Len(str) /\ str[j + 2 * m] = "]"}
    IN IF ms = {} THEN 0 ELSE j + 2 * Max(ms)

\* The value pattern  \[ .*? (?<!\\) (?:\\\\)* \]  from the "[" at position p,
\* with .*? taking k characters: the lookbehind asks that the character before
\* position j is no backslash, (?:\\\\)* takes m pairs of backslashes, as many
\* as it can, and "]" must follow.  The position of that "]", 0 for no match.
ValueClose(str, p, k) ==
    LET j == p + 1 + k
        ms == {m \in 0..(BackslashRun(str, j) \div 2) :
                  j + 2 * m <= Len(str) /\ str[j + 2 * m] = "]"}
    IN IF str[j - 1] = "\\" \/ ms = {} THEN 0 ELSE j + 2 * Max(ms)

\* .*? is lazy: the match is the one with the fewest characters k
ValueEnd(str, p) ==
    LET ks == {k \in 0..(Len(str) - p) : ValueClose(str, p, k) # 0}
    IN IF ks = {} THEN 0 ELSE ValueClose(str, p, Min(ks))

NoMatch == [type |-> "none"]
Tok(type, contents) == [type |-> type, contents |-> contents]

\* _tokenise_re.match(s, i): the token's type (m.lastgroup), its contents
\* (m.group(m.lastindex)) and m.end()
TokenAt(str, from) ==
    LET q == SkipSpace(str, from)
    IN IF q > Len(str) THEN NoMatch
       ELSE IF str[q] \in {";", "(", ")"}
            THEN [type |-> "D", contents |-> <<str[q]>>, end |-> q + 1]
       ELSE IF IsUpper(str[q])
            THEN LET n == IF UpperRun(str, q) < 8 THEN UpperRun(str, q) ELSE 8
                 IN [type |-> "I", contents |-> SubSeq(str, q, q + n - 1), end |-> q + n]
       ELSE IF str[q] = "[" /\ ValueEnd(str, q) # 0
            THEN [type |-> "V", contents |-> SubSeq(str, q + 1, ValueEnd(str, q) - 1),
                  end |-> ValueEnd(str, q) + 1]
       ELSE NoMatch

\* lines 374-376, no match
TokNoStart ==
    /\ tk_pc = "start"
    /\ find_start(s) = 0
    /\ tk_pc' = "done"
    /\ rd_pc' = "loop"
    /\ UNCHANGED <<s, i, tokens, tok_start, tok_end>>
    /\ UNCHANGED <<index, nodes, node, closed, rd_out>>
    /\ UNCHANGED <<treeVars, notSgf>>

\* lines 374-377
TokFindStart ==
    /\ tk_pc = "start"
    /\ find_start(s) # 0
    /\ i' = find_start(s)
    /\ tk_pc' = "loop"
    /\ UNCHANGED <<s, tokens, tok_start, tok_end>>
    /\ UNCHANGED <<readVars, treeVars, notSgf>>

\* lines 379-383; tok_start and tok_end keep each match's i and m.end()
TokMatch ==
    /\ tk_pc = "loop"
    /\ TokenAt(s, i) # NoMatch
    /\ tokens' = Append(tokens, Tok(TokenAt(s, i).type, TokenAt(s, i).contents))
    /\ tok_start' = Append(tok_start, i)
    /\ tok_end' = Append(tok_end, TokenAt(s, i).end)
    /\ i' = TokenAt(s, i).end
    /\ UNCHANGED <<tk_pc, s>>
    /\ UNCHANGED <<readVars, treeVars, notSgf>>

\* lines 380-384
TokBreak ==
    /\ tk_pc = "loop"
    /\ TokenAt(s, i) = NoMatch
    /\ tk_pc' = "done"
    /\ rd_pc' = "loop"
    /\ UNCHANGED <<s, i, tokens, tok_start, tok_end>>
    /\ UNCHANGED <<index, nodes, node, closed, rd_out>>
    /\ UNCHANGED <<treeVars, notSgf>>

\* _tokenise as a function of the string
RECURSIVE TokeniseFrom(_, _)
TokeniseFrom(str, from) ==
    IF TokenAt(str, from) = NoMatch THEN <<>>
    ELSE <<Tok(TokenAt(str, from).type, TokenAt(str, from).contents)>>
         \o TokeniseFrom(str, TokenAt(str, from).end)

_tokenise(str) == IF find_start(str) = 0 THEN <<>> ELSE TokeniseFrom(str, find_start(str))

-----------------------------------------------------------------------------
(* Node, Sgf_game_tree._setup, read_sgf                                    *)

\* Node.__init__: props_by_id = {}
EmptyProps == [id \in {} |-> <<>>]

\* Node.add
add(props, identifier, values) == (identifier :> values) @@ props

\* Node.has_prop
has_prop(props, identifier) == identifier \in DOMAIN props

\* Node.get_raw, of a property the node has
get_raw(props, identifier) == props[identifier][1]

\* Node.get_list, of a property the node has
get_list(props, identifier) ==
    IF props[identifier] = << <<>> >> THEN <<>> ELSE props[identifier]

Digits == {Ascii[n] : n \in 17..26}

IsDigit(c) == c \in Digits

\* the value of a string of digits, -1 when a character is no digit
RECURSIVE DigitsValue(_, _)
DigitsValue(str, acc) ==
    IF str = <<>> THEN acc
    ELSE IF ~IsDigit(str[1]) THEN -1
    ELSE DigitsValue(Tail(str), 10 * acc + (ord(str[1]) - ord("0")))

RECURSIVE Strip(_)
Strip(str) ==
    IF str # <<>> /\ IsSpace(str[1]) THEN Strip(Tail(str))
    ELSE IF str # <<>> /\ IsSpace(str[Len(str)]) THEN Strip(SubSeq(str, 1, Len(str) - 1))
    ELSE str

\* int(x) of a string: whitespace around, an optional sign, decimal digits
int(str) ==
    LET t == Strip(str)
        signed == t # <<>> /\ t[1] \in {"+", "-"}
        digits == IF signed THEN Tail(t) ELSE t
    IN IF digits = <<>> \/ DigitsValue(digits, 0) < 0 THEN ValueError
       ELSE IF signed /\ t[1] = "-" THEN IntVal(0 - DigitsValue(digits, 0))
       ELSE IntVal(DigitsValue(digits, 0))

\* lines 245-248, for a root node
SetupSize(root) ==
    IF has_prop(root, <<"S", "Z">>) THEN int(get_raw(root, <<"S", "Z">>)) ELSE IntVal(19)

\* the number of consecutive V tokens from position from on
RECURSIVE ValuesRun(_, _)
ValuesRun(toks, from) ==
    IF from <= Len(toks) /\ toks[from].type = "V" THEN 1 + ValuesRun(toks, from + 1) ELSE 0

\* prop_values after the inner loop has read run values
PropValues(toks, idx, run) == [k \in 1..run |-> toks[idx + k].contents]

\* the end of the tokens taken for the end of the game
ReadEndAsClose ==
    /\ rd_pc = "loop"
    /\ index > Len(tokens)
    /\ rd_pc' = "setup"
    /\ UNCHANGED <<index, nodes, node, closed, rd_out>>
    /\ UNCHANGED <<tokVars, treeVars, notSgf>>

\* lines 410, 435-436: tokens[index] raises IndexError, caught
ReadEnd ==
    /\ rd_pc = "loop"
    /\ index > Len(tokens)
    /\ rd_out' = ValueError
    /\ rd_pc' = "done"
    /\ UNCHANGED <<index, nodes, node, closed>>
    /\ UNCHANGED <<tokVars, treeVars, notSgf>>

\* lines 412-413
ReadValue ==
    /\ rd_pc = "loop"
    /\ index <= Len(tokens)
    /\ tokens[index].type = "V"
    /\ index' = index + 1
    /\ rd_out' = ValueError
    /\ rd_pc' = "done"
    /\ UNCHANGED <<nodes, node, closed>>
    /\ UNCHANGED <<tokVars, treeVars, notSgf>>

\* a ")" that ends the game only when no token follows it
ReadCloseAtEnd ==
    /\ rd_pc = "loop"
    /\ index <= Len(tokens)
    /\ tokens[index] = Tok("D", <<")">>)
    /\ index' = index + 1
    /\ closed' = TRUE
    /\ rd_pc' = IF index = Len(tokens) THEN "setup" ELSE "loop"
    /\ UNCHANGED <<nodes, node, rd_out>>
    /\ UNCHANGED <<tokVars, treeVars, notSgf>>

\* lines 415-416
ReadClose ==
    /\ rd_pc = "loop"
    /\ index <= Len(tokens)
    /\ tokens[index] = Tok("D", <<")">>)
    /\ index' = index + 1
    /\ closed' = TRUE
    /\ rd_pc' = "setup"
    /\ UNCHANGED <<nodes, node, rd_out>>
    /\ UNCHANGED <<tokVars, treeVars, notSgf>>

\* lines 417-418
ReadOpen ==
    /\ rd_pc = "loop"
    /\ index <= Len(tokens)
    /\ tokens[index] = Tok("D", <<"(">>)
    /\ index' = index + 1
    /\ UNCHANGED <<rd_pc, nodes, node, closed, rd_out>>
    /\ UNCHANGED <<tokVars, treeVars, notSgf>>

\* lines 419-421
ReadNode ==
    /\ rd_pc = "loop"
    /\ index <= Len(tokens)
    /\ tokens[index] = Tok("D", <<";">>)
    /\ index' = index + 1
    /\ nodes' = Append(nodes, EmptyProps)
    /\ node' = Len(nodes) + 1
    /\ UNCHANGED <<rd_pc, closed, rd_out>>
    /\ UNCHANGED <<tokVars, treeVars, notSgf>>

\* lines 424-431, 435-436: the inner loop reads past the last token
ReadPropertyEnd ==
    /\ rd_pc = "loop"
    /\ index <= Len(tokens)
    /\ tokens[index].type = "I"
    /\ index + 1 + ValuesRun(tokens, index + 1) > Len(tokens)
    /\ index' = index + 1 + ValuesRun(tokens, index + 1)
    /\ rd_out' = ValueError
    /\ rd_pc' = "done"
    /\ UNCHANGED <<nodes, node, closed>>
    /\ UNCHANGED <<tokVars, treeVars, notSgf>>

\* lines 424-433
ReadPropertyNoValues ==
    /\ rd_pc = "loop"
    /\ index <= Len(tokens)
    /\ tokens[index].type = "I"
    /\ index + 1 <= Len(tokens)
    /\ ValuesRun(tokens, index + 1) = 0
    /\ index' = index + 1
    /\ rd_out' = ValueError
    /\ rd_pc' = "done"
    /\ UNCHANGED <<nodes, node, closed>>
    /\ UNCHANGED <<tokVars, treeVars, notSgf>>

\* lines 424-434; node is 0 while the name node is unbound
ReadProperty ==
    /\ rd_pc = "loop"
    /\ index <= Len(tokens)
    /\ tokens[index].type = "I"
    /\ ValuesRun(tokens, index + 1) > 0
    /\ index + 1 + ValuesRun(tokens, index + 1) <= Len(tokens)
    /\ index' = index + 1 + ValuesRun(tokens, index + 1)
    /\ IF node = 0
       THEN /\ rd_out' = UnboundLocalError
            /\ rd_pc' = "done"
            /\ UNCHANGED nodes
       ELSE /\ nodes' = [nodes EXCEPT ![node] =
                            add(@, tokens[index].contents,
                                PropValues(tokens, index, ValuesRun(tokens, index + 1)))]
            /\ UNCHANGED <<rd_pc, rd_out>>
    /\ UNCHANGED <<node, closed>>
    /\ UNCHANGED <<tokVars, treeVars, notSgf>>

\* lines 437-438 and _setup, lines 244-248: nodes[0] of no nodes raises
\* IndexError, int() of a malformed SZ raises ValueError
Setup ==
    /\ rd_pc = "setup"
    /\ size' = IF nodes = <<>> \/ SetupSize(nodes[1]) = ValueError
               THEN size ELSE SetupSize(nodes[1])
    /\ rd_out' = IF nodes = <<>> THEN IndexError
                 ELSE IF SetupSize(nodes[1]) = ValueError THEN ValueError
                 ELSE Tree(nodes, SetupSize(nodes[1]))
    /\ rd_pc' = "done"
    /\ UNCHANGED <<index, nodes, node, closed>>
    /\ UNCHANGED <<tokVars, ga_call, ga_ret, notSgf>>

\* the loop of read_sgf as a function of the tokens: an exception, or the
\* nodes at the break
RECURSIVE read_loop(_, _, _, _)
read_loop(toks, idx, nds, nd) ==
    IF idx > Len(toks) THEN ValueError
    ELSE IF toks[idx].type = "V" THEN ValueError
    ELSE IF toks[idx] = Tok("D", <<")">>) THEN [kind |-> "break", nodes |-> nds]
    ELSE IF toks[idx] = Tok("D", <<"(">>) THEN read_loop(toks, idx + 1, nds, nd)
    ELSE IF toks[idx] = Tok("D", <<";">>)
         THEN read_loop(toks, idx + 1, Append(nds, EmptyProps), Len(nds) + 1)
    ELSE LET run == ValuesRun(toks, idx + 1)
         IN IF idx + 1 + run > Len(toks) THEN ValueError
            ELSE IF run = 0 THEN ValueError
            ELSE IF nd = 0 THEN UnboundLocalError
            ELSE read_loop(toks, idx + 1 + run,
                           [nds EXCEPT ![nd] =
                               add(@, toks[idx].contents, PropValues(toks, idx, run))],
                           nd)

\* read_sgf as a function of the string
read_sgf(str) ==
    LET r == read_loop(_tokenise(str), 1, <<>>, 0)
    IN IF r.kind # "break" THEN r
       ELSE IF r.nodes = <<>> THEN IndexError
       ELSE IF SetupSize(r.nodes[1]) = ValueError THEN ValueError
       ELSE Tree(r.nodes, SetupSize(r.nodes[1]))

\* the characters of an input, and what it begins with
ReadChars == {"(", ")", ";", "[", "]", "\\", "A", " "}
Leads == {<<>>, <<"(", ";">>, <<"(", ";", "A">>}

InitRead ==
    /\ IdleText /\ IdlePoint /\ IdleList
    /\ tk_pc = "start"
    /\ s \in {lead \o body : lead \in Leads, body \in SeqsUpTo(ReadChars, MaxLen)}
    /\ i = 1
    /\ tokens = <<>>
    /\ tok_start = <<>>
    /\ tok_end = <<>>
    /\ rd_pc = "tokenise"
    /\ ReadEntry

NextRead ==
    \/ TokNoStart
    \/ TokFindStart
    \/ TokMatch
    \/ TokBreak
    \/ ReadEnd
    \/ ReadValue
    \/ ReadClose
    \/ ReadOpen
    \/ ReadNode
    \/ ReadPropertyEnd
    \/ ReadPropertyNoValues
    \/ ReadProperty
    \/ Setup

SpecRead == InitRead /\ [][NextRead]_vars

-----------------------------------------------------------------------------
(* Sgf_game_tree: get_size, get_handicap, get_setup_and_moves              *)

\* interpret_compressed_point_list as a function of the values: ValueError, or
\* the points of the values from position k on added to acc
RECURSIVE PointListFrom(_, _, _, _)
PointListFrom(values, sz, k, acc) ==
    IF k > Len(values) THEN [kind |-> "points", points |-> acc]
    ELSE IF ListItem(values[k], sz) = ValueError THEN ValueError
    ELSE PointListFrom(values, sz, k + 1, acc \cup ListItem(values[k], sz).points)

interpret_compressed_point_list(values, sz) == PointListFrom(values, sz, 1, {})

\* one try block of Node.get_setup_commands: KeyError gives the empty set
SetupPoints(props, identifier, sz) ==
    IF has_prop(props, identifier)
    THEN interpret_compressed_point_list(get_list(props, identifier), sz)
    ELSE [kind |-> "points", points |-> {}]

\* Node.get_setup_commands
get_setup_commands(props, sz) ==
    LET bp == SetupPoints(props, <<"A", "B">>, sz)
        wp == SetupPoints(props, <<"A", "W">>, sz)
        ep == SetupPoints(props, <<"A", "E">>, sz)
    IN IF bp = ValueError \/ wp = ValueError \/ ep = ValueError THEN ValueError
       ELSE [kind |-> "setup", bp |-> bp.points, wp |-> wp.points, ep |-> ep.points]

\* has_setup_commands that forgets the AE property
has_setup_commands_no_AE(props) ==
    has_prop(props, <<"A", "B">>) \/ has_prop(props, <<"A", "W">>)

\* Node.has_setup_commands
has_setup_commands(props) ==
    has_prop(props, <<"A", "B">>) \/ has_prop(props, <<"A", "W">>)
        \/ has_prop(props, <<"A", "E">>)

\* Node.get_move: ValueError, or the pair (colour, coords)
get_move(props, sz) ==
    LET values == IF has_prop(props, <<"B">>) THEN props[<<"B">>] ELSE props[<<"W">>]
        colour == IF has_prop(props, <<"B">>) THEN "b" ELSE "w"
    IN IF ~has_prop(props, <<"B">>) /\ ~has_prop(props, <<"W">>)
       THEN [kind |-> "move", colour |-> "None", coords |-> None]
       ELSE IF interpret_point(values[1], sz) = ValueError THEN ValueError
       ELSE [kind |-> "move", colour |-> colour, coords |-> interpret_point(values[1], sz)]

\* boards.Board(size), of the board module: a board of that side
Board(sz) == [side |-> sz]

\* what Board.apply_setup, of the board module, may return
apply_setup == BOOLEAN

\* lines 332-339: the loop over nodes[1:], from node k on
RECURSIVE MovesFrom(_, _, _, _)
MovesFrom(nds, sz, k, moves) ==
    IF k > Len(nds) THEN [kind |-> "board, moves", board |-> Board(sz), moves |-> moves]
    ELSE IF has_setup_commands(nds[k]) THEN ValueError
    ELSE IF get_move(nds[k], sz) = ValueError THEN ValueError
    ELSE IF get_move(nds[k], sz).colour # "None"
         THEN MovesFrom(nds, sz, k + 1,
                        Append(moves, <<get_move(nds[k], sz).colour, get_move(nds[k], sz).coords>>))
    ELSE MovesFrom(nds, sz, k + 1, moves)

\* Sgf_game_tree.get_setup_and_moves, when apply_setup would return is_legal
get_setup_and_moves(nds, sz, is_legal) ==
    LET setup == get_setup_commands(nds[1], sz)
    IN IF setup = ValueError THEN ValueError
       ELSE IF (setup.bp # {} \/ setup.wp # {}) /\ ~is_legal THEN ValueError
       ELSE MovesFrom(nds, sz, 2, <<>>)

\* Sgf_game_tree.get_handicap
get_handicap(root) ==
    IF ~has_prop(root, <<"H", "A">>) THEN None
    ELSE LET handicap == int(get_raw(root, <<"H", "A">>))
         IN IF handicap = ValueError THEN ValueError
            ELSE IF handicap.val = 0 THEN None
            ELSE IF handicap.val = 1 THEN ValueError
            ELSE handicap

\* read_sgf has returned a tree
Returned == rd_pc = "done" /\ rd_out.kind = "tree"

\* a call of get_size on the returned tree: ga_call and ga_ret hold the last
\* getter called and what it returned or raised
GetSize ==
    /\ Returned
    /\ ga_call' = "get_size"
    /\ ga_ret' = size
    /\ UNCHANGED size
    /\ UNCHANGED <<tokVars, readVars, notSgf>>

GetHandicap ==
    /\ Returned
    /\ ga_call' = "get_handicap"
    /\ ga_ret' = get_handicap(nodes[1])
    /\ UNCHANGED size
    /\ UNCHANGED <<tokVars, readVars, notSgf>>

GetSetupAndMoves ==
    /\ Returned
    /\ ga_call' = "get_setup_and_moves"
    /\ \E is_legal \in apply_setup :
          ga_ret' = get_setup_and_moves(nodes, size.val, is_legal)
    /\ UNCHANGED size
    /\ UNCHANGED <<tokVars, readVars, notSgf>>

D(c) == Tok("D", <<c>>)
Prop(identifier, values) ==
    <<Tok("I", identifier)>> \o [k \in 1..Len(values) |-> Tok("V", values[k])]

\* what may follow "(;" in a token list: a new node, a property, a value with
\* no identifier, an identifier with no value
TreeItems ==
    {<<D(";")>>, <<Tok("V", <<"a">>)>>, <<Tok("I", <<"C">>)>>}
    \cup {Prop(<<"S", "Z">>, <<v>>) : v \in {<<"9">>, <<"0">>, <<"x">>}}
    \cup {Prop(<<"H", "A">>, <<v>>) : v \in {<<"0">>, <<"1">>, <<"2">>, <<"-", "3">>, <<"x">>}}
    \cup {Prop(id, << <<"a", "a">> >>) : id \in {<<"A", "B">>, <<"A", "E">>}}
    \cup {Prop(<<"W">>, << <<"t", "t">> >>), Prop(<<"B">>, << <<"z", "z">> >>)}

\* read_sgf when _tokenise has returned: the tokens are "(", ";", up to
\* MaxItems items and then ")" or nothing; the string is not modelled
InitTree ==
    /\ IdleText /\ IdlePoint /\ IdleList
    /\ tk_pc = "done"
    /\ s = <<>>
    /\ i = 1
    /\ tokens \in {<<D("("), D(";")>> \o Join(items) \o last :
                      items \in SeqsUpTo(TreeItems, MaxItems),
                      last \in {<<>>, <<D(")")>>}}
    /\ tok_start = <<>>
    /\ tok_end = <<>>
    /\ rd_pc = "loop"
    /\ ReadEntry

NextTree ==
    \/ ReadEnd
    \/ ReadValue
    \/ ReadClose
    \/ ReadOpen
    \/ ReadNode
    \/ ReadPropertyEnd
    \/ ReadPropertyNoValues
    \/ ReadProperty
    \/ Setup
    \/ GetSize
    \/ GetHandicap
    \/ GetSetupAndMoves

SpecTree == InitTree /\ [][NextTree]_vars

NextPoint == InterpretPoint

SpecText == InitText /\ [][NextText]_vars

SpecPoint == InitPoint /\ [][NextPoint]_vars

SpecList == InitList /\ [][NextList]_vars

-----------------------------------------------------------------------------
(* The claims.                                                             *)

\* the input has no start point, "(" then optional whitespace then ";"
NoStartPoint == find_start(s) = 0

\* the tokeniser has stopped, at the end of the input or at something it
\* cannot tokenise
TokenisingOver == tk_pc = "done"

\* C1: read_sgf returns a tree only after the loop has consumed a ")" token;
\* an input with no start point, and one whose tokens end before a ")" is
\* consumed, fails with ValueError and returns no tree.
C1_TreeOnlyAfterClose ==
    /\ rd_out.kind = "tree" => closed
    /\ rd_pc = "done" /\ (NoStartPoint \/ ~closed) => rd_out = ValueError
    /\ rd_pc = "done" /\ ~(\E n \in 1..Len(tokens) : tokens[n] = D(")")) => rd_out = ValueError

\* a property with its value was read, then the tokens ended at something
\* that is no token, before any ")": the call has failed
C1_Witness ==
    /\ rd_pc = "done"
    /\ rd_out = ValueError
    /\ ~closed
    /\ Len(tokens) = 4
    /\ tokens[4].type = "V"
    /\ i <= Len(s)

\* the end of the ")" token that the loop consumed, as a position of s
CloseEnd == tok_end[index - 1] - 1

\* C2: when the loop has consumed a ")", the result of read_sgf on the whole
\* input is its result on the input cut after that ")": the same nodes and
\* properties, whatever follows.
C2_FirstCloseEndsParsing ==
    rd_pc = "done" /\ closed =>
        /\ tokens[index - 1] = D(")")
        /\ \A n \in 1..(index - 2) : tokens[n] # D(")")
        /\ rd_out = read_sgf(SubSeq(s, 1, CloseEnd))

\* a tree with a property was returned from an input that goes on after the
\* first ")" with more tokens
C2_Witness ==
    /\ rd_pc = "done"
    /\ rd_out.kind = "tree"
    /\ CloseEnd < Len(s)
    /\ Len(tokens) > index - 1
    /\ DOMAIN nodes[1] # {}

\* C3: the tokens, when there are any, begin with "(" and ";", so a node is
\* open before a property token is met and before _setup reads nodes[0]:
\* neither raises, and a returned tree has a node.
C3_RootNodeExists ==
    /\ TokenisingOver /\ tokens # <<>> =>
          Len(tokens) >= 2 /\ tokens[1] = D("(") /\ tokens[2] = D(";")
    /\ rd_pc = "loop" /\ index <= Len(tokens) /\ tokens[index].type # "D" => node # 0
    /\ rd_pc = "setup" => nodes # <<>>
    /\ rd_out # UnboundLocalError
    /\ rd_out # IndexError
    /\ rd_out.kind = "tree" => Len(rd_out.nodes) >= 1

\* a tree was returned whose root has a property
C3_Witness ==
    /\ rd_out.kind = "tree"
    /\ Len(rd_out.nodes) = 1
    /\ DOMAIN rd_out.nodes[1] # {}

\* the token of the claim: first letter of index col, second of index s-1-row
EncodePoint(row, col, sz) == <<Letter(col), Letter(sz - 1 - row)>>

\* C4: interpret_point reads the token that encodes the point (row, col) of a
\* board of size s as (row, col): never as a pass, never as an error.
C4_PointRoundTrip ==
    ip_pc = "done" =>
        \A row \in 0..(ip_size - 1), col \in 0..(ip_size - 1) :
            ip_s = EncodePoint(row, col, ip_size) => ip_out = Pt(row, col)

\* "tt" on a board of size 20 is the point of row 0 and column 19
C4_Witness ==
    /\ ip_pc = "done"
    /\ ip_size = 20
    /\ ip_s = EncodePoint(0, 19, 20)
    /\ ip_s = <<"t", "t">>
    /\ ip_out = Pt(0, 19)

\* the two corners of a rectangle value, as interpret_point reads them
Corner1(v, sz) == interpret_point(partition(v).p1, sz)
Corner2(v, sz) == interpret_point(partition(v).p2, sz)
IsRectangle(v) == \E k \in 1..Len(v) : v[k] = ":"

\* the claim's condition on a value: both corners are points, and the second
\* one's row is <= the first one's, its column >= the first one's
Accepted(v, sz) ==
    IF IsRectangle(v)
    THEN /\ Corner1(v, sz).kind = "point"
         /\ Corner2(v, sz).kind = "point"
         /\ Corner2(v, sz).pt[1] <= Corner1(v, sz).pt[1]
         /\ Corner2(v, sz).pt[2] >= Corner1(v, sz).pt[2]
    ELSE Corner1(v, sz).kind = "point"

\* the points of the board between the two corners, both included
CrossProduct(v, sz) ==
    IF IsRectangle(v)
    THEN {pt \in (0..(sz - 1)) \X (0..(sz - 1)) :
             /\ Corner2(v, sz).pt[1] <= pt[1] /\ pt[1] <= Corner1(v, sz).pt[1]
             /\ Corner1(v, sz).pt[2] <= pt[2] /\ pt[2] <= Corner2(v, sz).pt[2]}
    ELSE {Corner1(v, sz).pt}

\* the rectangle from the upper left corner to the lower right one
WholeBoard(sz) == <<"a", "a", ":", Letter(sz - 1), Letter(sz - 1)>>

\* C5: interpret_compressed_point_list fails exactly when a value is not
\* accepted; otherwise it returns the union of the values' cross products, and
\* s*s points when a value is the rectangle of the whole board, whatever the
\* other values.
C5_RectangleCrossProduct ==
    pl_pc = "done" =>
        /\ pl_out = ValueError <=>
              \E k \in 1..Len(pl_values) : ~Accepted(pl_values[k], pl_size)
        /\ pl_out # ValueError =>
              pl_out.points = UNION {CrossProduct(pl_values[k], pl_size) :
                                        k \in 1..Len(pl_values)}
        /\ pl_out # ValueError /\ (\E k \in 1..Len(pl_values) : pl_values[k] = WholeBoard(pl_size))
              => Cardinality(pl_out.points) = pl_size * pl_size

\* the whole board of size 20 and then a column of it: 400 points
C5_Witness ==
    /\ pl_pc = "done"
    /\ pl_size = 20
    /\ pl_values = <<WholeBoard(20), <<"a", "a", ":", "a", "t">> >>
    /\ pl_out # ValueError
    /\ Cardinality(pl_out.points) = 400

\* C6: get_handicap returns None (no HA, or HA zero), or an integer >= 2, or
\* raises ValueError (HA is 1, or is no integer); never an integer below 2.
C6_HandicapOutcomes ==
    ga_call = "get_handicap" =>
        \/ ga_ret = None
        \/ ga_ret = ValueError
        \/ ga_ret.kind = "int" /\ ga_ret.val >= 2

\* C7: the size of a returned tree is a positive integer: 19 when the root has
\* no SZ, the integer of the root's SZ otherwise, and what get_size returns
\* later; an SZ that is no integer makes read_sgf fail.
C7_SizePositive ==
    /\ Returned =>
          /\ size.kind = "int"
          /\ size.val > 0
          /\ size = rd_out.size
          /\ ~has_prop(nodes[1], <<"S", "Z">>) => size.val = 19
          /\ has_prop(nodes[1], <<"S", "Z">>) => size = int(get_raw(nodes[1], <<"S", "Z">>))
    /\ ga_call = "get_size" => ga_ret = rd_out.size
    /\ rd_pc = "done" /\ closed /\ nodes # <<>> /\ has_prop(nodes[1], <<"S", "Z">>)
          /\ int(get_raw(nodes[1], <<"S", "Z">>)) = ValueError
          => rd_out = ValueError

\* a node after the root holds one of AB, AW, AE
SetupAfterRoot ==
    \E k \in 2..Len(nodes) :
        \E id \in {<<"A", "B">>, <<"A", "W">>, <<"A", "E">>} : id \in DOMAIN nodes[k]

\* C8: get_setup_and_moves raises ValueError whenever a node after the root
\* holds AB, AW or AE; it returns a board and moves only when none does.
C8_SetupAfterRootFails ==
    ga_call = "get_setup_and_moves" =>
        /\ SetupAfterRoot => ga_ret = ValueError
        /\ ga_ret.kind = "board, moves" => ~SetupAfterRoot

\* a root with a size, then a node that holds AE alone: the call has failed
C8_Witness ==
    /\ ga_call = "get_setup_and_moves"
    /\ ga_ret = ValueError
    /\ Len(nodes) = 2
    /\ DOMAIN nodes[1] = {<<"S", "Z">>}
    /\ DOMAIN nodes[2] = {<<"A", "E">>}

\* the scan of the claim, one character at a time
RECURSIVE EscapeScan(_, _)
EscapeScan(str, escaped) ==
    IF str = <<>> THEN <<>>
    ELSE IF escaped
         THEN (IF str[1] = "\n" THEN <<>> ELSE <<str[1]>>) \o EscapeScan(Tail(str), FALSE)
    ELSE IF str[1] = "\\" THEN EscapeScan(Tail(str), TRUE)
    ELSE <<str[1]>> \o EscapeScan(Tail(str), FALSE)

\* C9: value_as_text returns, for every input, the escape scan of the
\* whitespace-normalised input; until it returns it has a next step.
C9_EscapeScan ==
    /\ vt_pc = "done" => vt_out = EscapeScan(Translate(NewlineSub(vt_in)), FALSE)
    /\ vt_pc \in {"entry", "loop"} => ENABLED NextText

\* an escaped backslash, a line break it leaves literal, and a backslash at
\* the end, which adds nothing
C9_Witness ==
    /\ vt_pc = "done"
    /\ vt_in = <<"\\", "\\", "\r", "\\">>
    /\ vt_out = <<"\\", "\n">>

\* the number of consecutive backslashes that end just before position q,
\* after position p
RECURSIVE BackslashesBefore(_, _, _)
BackslashesBefore(str, q, p) ==
    IF q - 1 > p /\ str[q - 1] = "\\" THEN 1 + BackslashesBefore(str, q - 1, p) ELSE 0

\* the first "]" after the "[" at position p that an even number of
\* backslashes precedes, 0 when there is none
EvenClose(str, p) ==
    LET qs == {q \in (p + 1)..Len(str) :
                  str[q] = "]" /\ BackslashesBefore(str, q, p) % 2 = 0}
    IN IF qs = {} THEN 0 ELSE Min(qs)

\* every V token is the text between its "[" and the first "]" after an even
\* number of backslashes; where there is no such "]" there is no token
ValueTokens ==
    /\ \A n \in 1..Len(tokens) :
          tokens[n].type = "V" =>
              LET p == SkipSpace(s, tok_start[n])
              IN /\ s[p] = "["
                 /\ EvenClose(s, p) = tok_end[n] - 1
                 /\ tokens[n].contents = SubSeq(s, p + 1, EvenClose(s, p) - 1)
    /\ tk_pc = "loop" /\ SkipSpace(s, i) <= Len(s) /\ s[SkipSpace(s, i)] = "[" =>
          (TokenAt(s, i) = NoMatch <=> EvenClose(s, SkipSpace(s, i)) = 0)

\* the tokeniser has stopped at a "[" that no "]" closes
UnterminatedValue ==
    /\ TokenisingOver
    /\ ~NoStartPoint
    /\ SkipSpace(s, i) <= Len(s)
    /\ s[SkipSpace(s, i)] = "["
    /\ EvenClose(s, SkipSpace(s, i)) = 0

\* C10, as claimed: ... and when no such "]" exists, read_sgf fails.
C10_UnterminatedAlwaysFails ==
    /\ ValueTokens
    /\ rd_pc = "done" /\ UnterminatedValue => rd_out = ValueError

\* C10, amended: ... and when no such "]" exists, read_sgf fails unless the
\* loop has consumed a ")" before that "[".
C10_UnterminatedFailsBeforeClose ==
    /\ ValueTokens
    /\ rd_pc = "done" /\ UnterminatedValue /\ ~closed => rd_out = ValueError

\* after "(;A" comes a "[" whose only "]" follows one backslash: there is no
\* value token, and the call has failed
C10_Witness ==
    /\ rd_pc = "done"
    /\ rd_out = ValueError
    /\ UnterminatedValue
    /\ Len(tokens) = 3
    /\ SubSeq(s, SkipSpace(s, i), Len(s)) = <<"[", "\\", "]", ")">>

=============================================================================
